---- MODULE Spec2Model ----
(***************************************************************************)
(* A model of gitlab/v4/objects/artifacts.py: the two artifact managers    *)
(* (ProjectArtifactManager, addressed by ref and job name, and             *)
(* ProjectJobArtifactManager, addressed by job id), their fetch operations *)
(* download / raw, the deprecated __call__ aliases and delete.             *)
(*                                                                         *)
(* One behaviour is one invocation on one manager: the manager is built    *)
(* (Init), an operation is invoked with arguments drawn from small sets,   *)
(* the HTTP collaborator answers, and the response is materialized as a    *)
(* buffer, as a sequence of handler calls, or as an iterator the caller    *)
(* then drives.                                                            *)
(***************************************************************************)
EXTENDS Integers, Sequences, FiniteSets, TLC

\* Longest response body, in bytes.
MaxBody == 4
\* Largest explicit chunk_size a caller passes (the default is added to it).
MaxChunk == 2
\* chunk_size: int = 1024
DefaultChunkSize == 1024

ProjectIds == {1, 42}
JobIds == {7, 8}
Refs == {"main", "v1.0"}
Jobs == {"build", "test"}
ArtifactPaths == {"report.xml", "out/app.bin"}
\* "a" and "1"
Bytes == {97, 49}
Bodies == UNION {[1..n -> Bytes] : n \in 0..MaxBody}
ChunkSizes == (1..MaxChunk) \cup {DefaultChunkSize}
\* action: None, a handler that records its chunks, a handler that may raise
Handlers == {"None", "h", "faulty"}
\* **kwargs, as a set of <<name, value>> pairs
Extras == {{}, {<<"job_token", "tok">>}}
ErrorStatuses == {401, 403, 404, 500}

VARIABLES
    mgr,        \* the manager: its class, parent attributes and computed path
    pc,         \* "idle" | "streaming" | "returned" | "raised"
    call,       \* the invocation: operation and the caller's arguments
    warnings,   \* deprecation notices emitted
    requests,   \* the requests handed to the HTTP collaborator, in order
    response,   \* the response handle http_get returned
    frame,      \* response_content's locals while it or its iterator runs
    pos,        \* bytes of the body read so far through iter_content
    handled,    \* the chunks passed to the action handler, in order
    consumed,   \* the chunks the caller pulled from a returned iterator
    it,         \* the returned iterator: "none" | "live" | "exhausted" | "abandoned" | "failed"
    result,     \* the return value
    error,      \* the error kind raised, "none" when none
    conn        \* the connection the response holds: "closed" | "open"

vars == <<mgr, pc, call, warnings, requests, response, frame, pos, handled,
          consumed, it, result, error, conn>>

Min(a, b) == IF a < b THEN a ELSE b

(***************************************************************************)
(* The managers' class attributes.                                         *)
(***************************************************************************)
\* A path template is a sequence of literal text and {placeholders}.
ProjectArtifactManager_path == << <<"lit", "/projects/">>, <<"var", "project_id">>, <<"lit", "/jobs/artifacts">> >>
ProjectArtifactManager_from_parent_attrs == [project_id |-> "id"]
ProjectJobArtifactManager_path == << <<"lit", "/projects/">>, <<"var", "project_id">>, <<"lit", "/jobs/">>, <<"var", "job_id">>, <<"lit", "/artifacts">> >>
ProjectJobArtifactManager_from_parent_attrs == [project_id |-> "project_id", job_id |-> "id"]
\* self._compute_path("/projects/{project_id}/artifacts")
delete_path == << <<"lit", "/projects/">>, <<"var", "project_id">>, <<"lit", "/artifacts">> >>

(***************************************************************************)
(* The resource-addressing abstraction (RESTManager).                      *)
(***************************************************************************)
\* The manager's parent attributes: each name read from the parent object.
parent_attrs(from_parent_attrs, parent) == [k \in DOMAIN from_parent_attrs |-> parent[from_parent_attrs[k]]]

RECURSIVE compute_path(_, _)
\* The template with every placeholder replaced by the parent attribute.
compute_path(template, attrs) ==
    IF template = <<>> THEN ""
    ELSE LET seg == Head(template)
             txt == IF seg[1] = "lit" THEN seg[2] ELSE ToString(attrs[seg[2]])
         IN txt \o compute_path(Tail(template), attrs)

RESTManager(cls, template, from_parent_attrs, parent) ==
    [cls |-> cls,
     parent_attrs |-> parent_attrs(from_parent_attrs, parent),
     path |-> compute_path(template, parent_attrs(from_parent_attrs, parent))]

(***************************************************************************)
(* The HTTP collaborator and the response handle.                          *)
(***************************************************************************)
NoResponse == [status |-> 0, body |-> <<>>, content_consumed |-> TRUE]
NoFrame == [action |-> "None", chunk_size |-> 0]
Unset == [kind |-> "unset", value |-> <<>>]
None == [kind |-> "None", value |-> <<>>]
NoCall == [op |-> "", ref_name |-> "", artifact_path |-> "", job |-> "",
           streamed |-> FALSE, action |-> "None", chunk_size |-> 0,
           iterator |-> FALSE, kwargs |-> {}]

\* What the server may answer to a GET: a body, or a rejection.
GetAnswers == {[status |-> 200, body |-> b] : b \in Bodies} \cup {[status |-> s, body |-> <<>>] : s \in ErrorStatuses}
\* What the server may answer to a DELETE.
DeleteAnswers == {[status |-> 204, body |-> <<>>]} \cup {[status |-> s, body |-> <<>>] : s \in ErrorStatuses}

\* The error the collaborator raises for a status: none for 2xx.
http_error(status) ==
    IF status \in 200..299 THEN "none"
    ELSE IF status \in {401, 403} THEN "GitlabAuthenticationError"
    ELSE "GitlabHttpError"

\* The decorator: a GitlabHttpError becomes the operation's error kind.
on_http_error(kind, raised) == IF raised = "GitlabHttpError" THEN kind ELSE raised

\* A non-streamed transfer reads the whole body before http_get returns.
http_get_response(answer, streamed) == [status |-> answer.status, body |-> answer.body, content_consumed |-> ~streamed]

\* The next item of response.iter_content(chunk_size): at most n bytes from pos.
iter_content_next(resp, p, n) == SubSeq(resp.body, p + 1, Min(p + n, Len(resp.body)))

\* The connection after a read that moved the position to p: reading the
\* last byte of the body hands the connection back to the pool.
conn_after_read(resp, p, c) == IF p = Len(resp.body) THEN "closed" ELSE c

(***************************************************************************)
(* utils.response_content(response, streamed, action, chunk_size,          *)
(* iterator=iterator): the entry of the materializer.  The loop of the     *)
(* streamed branch runs in the actions StreamChunk .. StreamEnd.           *)
(***************************************************************************)
response_content(resp, a) ==
    /\ frame' = [action |-> a.action, chunk_size |-> a.chunk_size]
    /\ error' = "none"
    /\ IF a.iterator
       THEN /\ pc' = "returned"
            /\ result' = [kind |-> "iterator", value |-> <<>>]
            /\ it' = "live"
            /\ conn' = IF resp.content_consumed THEN "closed" ELSE "open"
       ELSE IF ~a.streamed
       THEN /\ pc' = "returned"
            /\ result' = [kind |-> "bytes", value |-> resp.body]
            /\ it' = "none"
            /\ conn' = "closed"
       ELSE /\ pc' = "streaming"
            /\ result' = Unset
            /\ it' = "none"
            /\ conn' = IF resp.content_consumed THEN "closed" ELSE "open"

\* result = self.gitlab.http_get(...); return utils.response_content(...),
\* under @exc.on_http_error(kind).
fetch(req, kind, a) ==
    \E answer \in GetAnswers :
        /\ requests' = Append(requests, req)
        /\ pos' = 0
        /\ handled' = <<>>
        /\ consumed' = <<>>
        /\ IF http_error(answer.status) # "none"
           THEN /\ pc' = "raised"
                /\ error' = on_http_error(kind, http_error(answer.status))
                /\ response' = [NoResponse EXCEPT !.status = answer.status]
                /\ frame' = NoFrame
                /\ result' = Unset
                /\ it' = "none"
                /\ conn' = "closed"
           ELSE /\ response' = http_get_response(answer, req.streamed)
                /\ response_content(http_get_response(answer, req.streamed), a)

(***************************************************************************)
(* ProjectArtifactManager                                                  *)
(***************************************************************************)
ProjectArtifactManager_download_request(self_path, ref_name, job, streamed, kwargs) ==
    [method |-> "GET",
     path |-> self_path \o "/" \o ref_name \o "/download",
     query |-> {<<"job", job>>} \cup kwargs,
     streamed |-> streamed,
     raw |-> TRUE]

\* Variant: the iterator flag is not forwarded to response_content.
ProjectArtifactManager_download_content_no_iterator(streamed, action, chunk_size, iterator) ==
    [streamed |-> streamed, action |-> action, chunk_size |-> chunk_size, iterator |-> FALSE]

ProjectArtifactManager_download_content(streamed, action, chunk_size, iterator) ==
    [streamed |-> streamed, action |-> action, chunk_size |-> chunk_size, iterator |-> iterator]

\* Variant: the operation is decorated with the deletion error kind.
ProjectArtifactManager_download_on_error_delete == "GitlabDeleteError"

ProjectArtifactManager_download_on_error == "GitlabGetError"

ProjectArtifactManager_download_body(ref_name, job, streamed, action, chunk_size, iterator, kwargs) ==
    fetch(ProjectArtifactManager_download_request(mgr.path, ref_name, job, streamed, kwargs),
          ProjectArtifactManager_download_on_error,
          ProjectArtifactManager_download_content(streamed, action, chunk_size, iterator))

ProjectArtifactManager_download ==
    /\ pc = "idle"
    /\ mgr.cls = "ProjectArtifactManager"
    /\ \E ref_name \in Refs, job \in Jobs, streamed \in BOOLEAN, action \in Handlers,
          chunk_size \in ChunkSizes, iterator \in BOOLEAN, kwargs \in Extras :
          /\ call' = [op |-> "ProjectArtifactManager.download", ref_name |-> ref_name,
                      artifact_path |-> "", job |-> job, streamed |-> streamed,
                      action |-> action, chunk_size |-> chunk_size,
                      iterator |-> iterator, kwargs |-> kwargs]
          /\ ProjectArtifactManager_download_body(ref_name, job, streamed, action, chunk_size, iterator, kwargs)
    /\ UNCHANGED <<mgr, warnings>>

\* __call__(*args, **kwargs): one deprecation notice, then download(*args, **kwargs).
ProjectArtifactManager_call ==
    /\ pc = "idle"
    /\ mgr.cls = "ProjectArtifactManager"
    /\ \E ref_name \in Refs, job \in Jobs, streamed \in BOOLEAN, action \in Handlers,
          chunk_size \in ChunkSizes, iterator \in BOOLEAN, kwargs \in Extras :
          /\ call' = [op |-> "ProjectArtifactManager.__call__", ref_name |-> ref_name,
                      artifact_path |-> "", job |-> job, streamed |-> streamed,
                      action |-> action, chunk_size |-> chunk_size,
                      iterator |-> iterator, kwargs |-> kwargs]
          /\ warnings' = warnings + 1
          /\ ProjectArtifactManager_download_body(ref_name, job, streamed, action, chunk_size, iterator, kwargs)
    /\ UNCHANGED mgr

\* Variant: delete addresses the manager's own jobs/artifacts root.
ProjectArtifactManager_delete_request_own_root(attrs, kwargs) ==
    [method |-> "DELETE",
     path |-> compute_path(ProjectArtifactManager_path, attrs),
     query |-> kwargs,
     streamed |-> FALSE,
     raw |-> FALSE]

ProjectArtifactManager_delete_request(attrs, kwargs) ==
    [method |-> "DELETE",
     path |-> compute_path(delete_path, attrs),
     query |-> kwargs,
     streamed |-> FALSE,
     raw |-> FALSE]

\* Variant: delete is decorated with the fetch error kind.
ProjectArtifactManager_delete_on_error_get == "GitlabGetError"

ProjectArtifactManager_delete_on_error == "GitlabDeleteError"

\* self.gitlab.http_delete(path, **kwargs) under @exc.on_http_error(GitlabDeleteError)
ProjectArtifactManager_delete ==
    /\ pc = "idle"
    /\ mgr.cls = "ProjectArtifactManager"
    /\ \E kwargs \in Extras, answer \in DeleteAnswers :
          /\ call' = [NoCall EXCEPT !.op = "ProjectArtifactManager.delete", !.kwargs = kwargs]
          /\ requests' = Append(requests, ProjectArtifactManager_delete_request(mgr.parent_attrs, kwargs))
          /\ response' = [NoResponse EXCEPT !.status = answer.status]
          /\ IF http_error(answer.status) # "none"
             THEN /\ pc' = "raised"
                  /\ error' = on_http_error(ProjectArtifactManager_delete_on_error, http_error(answer.status))
                  /\ result' = Unset
             ELSE /\ pc' = "returned"
                  /\ error' = "none"
                  /\ result' = None
    /\ UNCHANGED <<mgr, warnings, frame, pos, handled, consumed, it, conn>>

\* Variant: the job name is not sent with the by-ref raw request.
ProjectArtifactManager_raw_request_no_job(self_path, ref_name, artifact_path, job, streamed, kwargs) ==
    [method |-> "GET",
     path |-> self_path \o "/" \o ref_name \o "/raw/" \o artifact_path,
     query |-> kwargs,
     streamed |-> streamed,
     raw |-> TRUE]

ProjectArtifactManager_raw_request(self_path, ref_name, artifact_path, job, streamed, kwargs) ==
    [method |-> "GET",
     path |-> self_path \o "/" \o ref_name \o "/raw/" \o artifact_path,
     query |-> {<<"job", job>>} \cup kwargs,
     streamed |-> streamed,
     raw |-> TRUE]

ProjectArtifactManager_raw_content(streamed, action, chunk_size, iterator) ==
    [streamed |-> streamed, action |-> action, chunk_size |-> chunk_size, iterator |-> iterator]

ProjectArtifactManager_raw_on_error == "GitlabGetError"

ProjectArtifactManager_raw ==
    /\ pc = "idle"
    /\ mgr.cls = "ProjectArtifactManager"
    /\ \E ref_name \in Refs, artifact_path \in ArtifactPaths, job \in Jobs,
          streamed \in BOOLEAN, action \in Handlers, chunk_size \in ChunkSizes,
          iterator \in BOOLEAN, kwargs \in Extras :
          /\ call' = [op |-> "ProjectArtifactManager.raw", ref_name |-> ref_name,
                      artifact_path |-> artifact_path, job |-> job, streamed |-> streamed,
                      action |-> action, chunk_size |-> chunk_size,
                      iterator |-> iterator, kwargs |-> kwargs]
          /\ fetch(ProjectArtifactManager_raw_request(mgr.path, ref_name, artifact_path, job, streamed, kwargs),
                   ProjectArtifactManager_raw_on_error,
                   ProjectArtifactManager_raw_content(streamed, action, chunk_size, iterator))
    /\ UNCHANGED <<mgr, warnings>>

(***************************************************************************)
(* ProjectJobArtifactManager                                               *)
(***************************************************************************)
\* Variant: the transfer is always requested streamed, whatever the caller's flag.
ProjectJobArtifactManager_download_request_always_streamed(self_path, streamed, kwargs) ==
    [method |-> "GET",
     path |-> self_path,
     query |-> kwargs,
     streamed |-> TRUE,
     raw |-> TRUE]

ProjectJobArtifactManager_download_request(self_path, streamed, kwargs) ==
    [method |-> "GET",
     path |-> self_path,
     query |-> kwargs,
     streamed |-> streamed,
     raw |-> TRUE]

\* Variant: the handler is not forwarded to response_content.
ProjectJobArtifactManager_download_content_no_action(streamed, action, chunk_size, iterator) ==
    [streamed |-> streamed, action |-> "None", chunk_size |-> chunk_size, iterator |-> iterator]

ProjectJobArtifactManager_download_content(streamed, action, chunk_size, iterator) ==
    [streamed |-> streamed, action |-> action, chunk_size |-> chunk_size, iterator |-> iterator]

ProjectJobArtifactManager_download_on_error == "GitlabGetError"

ProjectJobArtifactManager_download_body(streamed, action, chunk_size, iterator, kwargs) ==
    fetch(ProjectJobArtifactManager_download_request(mgr.path, streamed, kwargs),
          ProjectJobArtifactManager_download_on_error,
          ProjectJobArtifactManager_download_content(streamed, action, chunk_size, iterator))

ProjectJobArtifactManager_download ==
    /\ pc = "idle"
    /\ mgr.cls = "ProjectJobArtifactManager"
    /\ \E streamed \in BOOLEAN, action \in Handlers, chunk_size \in ChunkSizes,
          iterator \in BOOLEAN, kwargs \in Extras :
          /\ call' = [NoCall EXCEPT !.op = "ProjectJobArtifactManager.download",
                                    !.streamed = streamed, !.action = action,
                                    !.chunk_size = chunk_size, !.iterator = iterator,
                                    !.kwargs = kwargs]
          /\ ProjectJobArtifactManager_download_body(streamed, action, chunk_size, iterator, kwargs)
    /\ UNCHANGED <<mgr, warnings>>

\* Variant: the alias forwards the positional arguments but not **kwargs.
ProjectJobArtifactManager_call_drops_kwargs ==
    /\ pc = "idle"
    /\ mgr.cls = "ProjectJobArtifactManager"
    /\ \E streamed \in BOOLEAN, action \in Handlers, chunk_size \in ChunkSizes,
          iterator \in BOOLEAN, kwargs \in Extras :
          /\ call' = [NoCall EXCEPT !.op = "ProjectJobArtifactManager.__call__",
                                    !.streamed = streamed, !.action = action,
                                    !.chunk_size = chunk_size, !.iterator = iterator,
                                    !.kwargs = kwargs]
          /\ warnings' = warnings + 1
          /\ ProjectJobArtifactManager_download_body(streamed, action, chunk_size, iterator, {})
    /\ UNCHANGED mgr

\* __call__(*args, **kwargs): one deprecation notice, then download(*args, **kwargs).
ProjectJobArtifactManager_call ==
    /\ pc = "idle"
    /\ mgr.cls = "ProjectJobArtifactManager"
    /\ \E streamed \in BOOLEAN, action \in Handlers, chunk_size \in ChunkSizes,
          iterator \in BOOLEAN, kwargs \in Extras :
          /\ call' = [NoCall EXCEPT !.op = "ProjectJobArtifactManager.__call__",
                                    !.streamed = streamed, !.action = action,
                                    !.chunk_size = chunk_size, !.iterator = iterator,
                                    !.kwargs = kwargs]
          /\ warnings' = warnings + 1
          /\ ProjectJobArtifactManager_download_body(streamed, action, chunk_size, iterator, kwargs)
    /\ UNCHANGED mgr

ProjectJobArtifactManager_raw_request(self_path, path, streamed, kwargs) ==
    [method |-> "GET",
     path |-> self_path \o "/" \o path,
     query |-> kwargs,
     streamed |-> streamed,
     raw |-> TRUE]

\* Variant: chunk_size is not forwarded, the default is used.
ProjectJobArtifactManager_raw_content_default_chunk(streamed, action, chunk_size, iterator) ==
    [streamed |-> streamed, action |-> action, chunk_size |-> DefaultChunkSize, iterator |-> iterator]

ProjectJobArtifactManager_raw_content(streamed, action, chunk_size, iterator) ==
    [streamed |-> streamed, action |-> action, chunk_size |-> chunk_size, iterator |-> iterator]

ProjectJobArtifactManager_raw_on_error == "GitlabGetError"

ProjectJobArtifactManager_raw ==
    /\ pc = "idle"
    /\ mgr.cls = "ProjectJobArtifactManager"
    /\ \E path \in ArtifactPaths, streamed \in BOOLEAN, action \in Handlers,
          chunk_size \in ChunkSizes, iterator \in BOOLEAN, kwargs \in Extras :
          /\ call' = [NoCall EXCEPT !.op = "ProjectJobArtifactManager.raw",
                                    !.artifact_path = path,
                                    !.streamed = streamed, !.action = action,
                                    !.chunk_size = chunk_size, !.iterator = iterator,
                                    !.kwargs = kwargs]
          /\ fetch(ProjectJobArtifactManager_raw_request(mgr.path, path, streamed, kwargs),
                   ProjectJobArtifactManager_raw_on_error,
                   ProjectJobArtifactManager_raw_content(streamed, action, chunk_size, iterator))
    /\ UNCHANGED <<mgr, warnings>>

(***************************************************************************)
(* The streamed branch of response_content:                                *)
(*     for chunk in response.iter_content(chunk_size): action(chunk)       *)
(***************************************************************************)
\* One chunk is read and handed to the handler, which returns.
StreamChunk ==
    /\ pc = "streaming"
    /\ pos < Len(response.body)
    /\ LET chunk == iter_content_next(response, pos, frame.chunk_size)
       IN /\ pos' = pos + Len(chunk)
          /\ handled' = IF frame.action = "None" THEN handled ELSE Append(handled, chunk)
          /\ conn' = conn_after_read(response, pos + Len(chunk), conn)
    /\ UNCHANGED <<mgr, pc, call, warnings, requests, response, frame, consumed, it, result, error>>

\* One chunk is read and handed to the handler, which raises: nothing in
\* response_content or in the operation catches it or closes the response.
StreamHandlerRaises ==
    /\ pc = "streaming"
    /\ pos < Len(response.body)
    /\ frame.action = "faulty"
    /\ LET chunk == iter_content_next(response, pos, frame.chunk_size)
       IN /\ pos' = pos + Len(chunk)
          /\ handled' = Append(handled, chunk)
          /\ conn' = conn_after_read(response, pos + Len(chunk), conn)
    /\ pc' = "raised"
    /\ error' = "HandlerError"
    /\ UNCHANGED <<mgr, call, warnings, requests, response, frame, consumed, it, result>>

\* The transfer breaks while a chunk is read: the transport's error propagates.
StreamTransportFails ==
    /\ pc = "streaming"
    /\ ~response.content_consumed
    /\ pos < Len(response.body)
    /\ pc' = "raised"
    /\ error' = "ChunkedEncodingError"
    /\ conn' = "closed"
    /\ UNCHANGED <<mgr, call, warnings, requests, response, frame, pos, handled, consumed, it, result>>

\* The chunks are exhausted: the connection goes back to the pool, return None.
StreamEnd ==
    /\ pc = "streaming"
    /\ pos = Len(response.body)
    /\ pc' = "returned"
    /\ result' = None
    /\ conn' = "closed"
    /\ UNCHANGED <<mgr, call, warnings, requests, response, frame, pos, handled, consumed, it, error>>

(***************************************************************************)
(* The iterator branch: the caller drives response.iter_content.           *)
(***************************************************************************)
IterNext ==
    /\ it = "live"
    /\ pos < Len(response.body)
    /\ LET chunk == iter_content_next(response, pos, frame.chunk_size)
       IN /\ pos' = pos + Len(chunk)
          /\ consumed' = Append(consumed, chunk)
          /\ conn' = conn_after_read(response, pos + Len(chunk), conn)
    /\ UNCHANGED <<mgr, pc, call, warnings, requests, response, frame, handled, it, result, error>>

\* The iterator is exhausted: the connection goes back to the pool.
IterStop ==
    /\ it = "live"
    /\ pos = Len(response.body)
    /\ it' = "exhausted"
    /\ conn' = "closed"
    /\ UNCHANGED <<mgr, pc, call, warnings, requests, response, frame, pos, handled, consumed, result, error>>

\* The caller stops consuming before the end; nothing closes the response.
IterBreak ==
    /\ it = "live"
    /\ pos < Len(response.body)
    /\ it' = "abandoned"
    /\ UNCHANGED <<mgr, pc, call, warnings, requests, response, frame, pos, handled, consumed, result, error, conn>>

\* The transfer breaks while the caller pulls a chunk.
IterTransportFails ==
    /\ it = "live"
    /\ ~response.content_consumed
    /\ pos < Len(response.body)
    /\ it' = "failed"
    /\ conn' = "closed"
    /\ UNCHANGED <<mgr, pc, call, warnings, requests, response, frame, pos, handled, consumed, result, error>>

Init ==
    /\ mgr \in {RESTManager("ProjectArtifactManager", ProjectArtifactManager_path,
                            ProjectArtifactManager_from_parent_attrs, [id |-> p]) : p \in ProjectIds}
          \cup {RESTManager("ProjectJobArtifactManager", ProjectJobArtifactManager_path,
                            ProjectJobArtifactManager_from_parent_attrs,
                            [project_id |-> pj[1], id |-> pj[2]]) : pj \in ProjectIds \X JobIds}
    /\ pc = "idle"
    /\ call = NoCall
    /\ warnings = 0
    /\ requests = <<>>
    /\ response = NoResponse
    /\ frame = NoFrame
    /\ pos = 0
    /\ handled = <<>>
    /\ consumed = <<>>
    /\ it = "none"
    /\ result = Unset
    /\ error = "none"
    /\ conn = "closed"

Next ==
    \/ ProjectArtifactManager_call
    \/ ProjectArtifactManager_delete
    \/ ProjectArtifactManager_download
    \/ ProjectArtifactManager_raw
    \/ ProjectJobArtifactManager_call
    \/ ProjectJobArtifactManager_download
    \/ ProjectJobArtifactManager_raw
    \/ StreamChunk
    \/ StreamHandlerRaises
    \/ StreamTransportFails
    \/ StreamEnd
    \/ IterNext
    \/ IterStop
    \/ IterBreak
    \/ IterTransportFails

Spec == Init /\ [][Next]_vars
(***************************************************************************)
(* Properties.                                                             *)
(***************************************************************************)
FetchOps == {"ProjectArtifactManager.download", "ProjectArtifactManager.raw",
             "ProjectJobArtifactManager.download", "ProjectJobArtifactManager.raw"}
DownloadOps == {"ProjectArtifactManager.download", "ProjectJobArtifactManager.download"}
ByRefOps == {"ProjectArtifactManager.download", "ProjectArtifactManager.raw"}
CallOps == {"ProjectArtifactManager.__call__", "ProjectJobArtifactManager.__call__"}

RECURSIVE Concat(_)
Concat(chunks) == IF chunks = <<>> THEN <<>> ELSE Head(chunks) \o Concat(Tail(chunks))

\* The body cut into consecutive pieces of n bytes, the last one possibly shorter.
ExpectedChunks(body, n) ==
    [i \in 1..((Len(body) + n - 1) \div n) |-> SubSeq(body, (i - 1) * n + 1, Min(i * n, Len(body)))]

IsPrefix(s, t) == Len(s) <= Len(t) /\ s = SubSeq(t, 1, Len(s))

\* The wire shape of each fetch operation, written out from the identifiers.
WirePath ==
    LET pid == ToString(mgr.parent_attrs.project_id)
    IN CASE call.op = "ProjectArtifactManager.download" ->
              "/projects/" \o pid \o "/jobs/artifacts/" \o call.ref_name \o "/download"
         [] call.op = "ProjectArtifactManager.raw" ->
              "/projects/" \o pid \o "/jobs/artifacts/" \o call.ref_name \o "/raw/" \o call.artifact_path
         [] call.op = "ProjectJobArtifactManager.download" ->
              "/projects/" \o pid \o "/jobs/" \o ToString(mgr.parent_attrs.job_id) \o "/artifacts"
         [] call.op = "ProjectJobArtifactManager.raw" ->
              "/projects/" \o pid \o "/jobs/" \o ToString(mgr.parent_attrs.job_id) \o "/artifacts/" \o call.artifact_path

\* C1: in each of the four fetch operations the result shape follows the
\* precedence iterator > streamed > buffered: with iterator the call returns
\* the lazy chunk iterator at once, whatever streamed is; else with streamed
\* it runs the chunk loop and returns None; else it returns the whole body as
\* one byte buffer, which is a buffer (not None) also when the body is empty.
C1_ResultShape ==
    call.op \in FetchOps =>
        /\ pc = "streaming" => (call.streamed /\ ~call.iterator)
        /\ it # "none" => call.iterator
        /\ pc = "returned" =>
              /\ call.iterator => (result.kind = "iterator" /\ it # "none")
              /\ (~call.iterator /\ call.streamed) => result = None
              /\ (~call.iterator /\ ~call.streamed) =>
                    (result.kind = "bytes" /\ result.value = response.body /\ result # None)

\* An iterator is returned although streamed is set too.
C1_Witness ==
    /\ call.op = "ProjectArtifactManager.download"
    /\ pc = "returned"
    /\ call.iterator /\ call.streamed
    /\ result.kind = "iterator"

\* C2: download(streamed=True, action=h, chunk_size=N) without iterator calls
\* h once per N-byte chunk, in arrival order (every chunk but the last has N
\* bytes), the arguments concatenate to the whole body, and the call returns
\* None; with an empty chunk sequence h is not called and None is returned.
C2_StreamedHandler ==
    (call.op \in DownloadOps /\ call.streamed /\ ~call.iterator /\ call.action # "None") =>
        /\ pc \in {"streaming", "raised"} =>
              IsPrefix(handled, ExpectedChunks(response.body, call.chunk_size))
        /\ pc = "returned" =>
              /\ handled = ExpectedChunks(response.body, call.chunk_size)
              /\ Concat(handled) = response.body
              /\ \A i \in 1..(Len(handled) - 1) : Len(handled[i]) = call.chunk_size
              /\ handled # <<>> => Len(handled[Len(handled)]) \in 1..call.chunk_size
              /\ response.body = <<>> => handled = <<>>
              /\ result = None

\* Three bytes in chunks of two: the handler got a full chunk and the short tail.
C2_Witness ==
    /\ call.op = "ProjectJobArtifactManager.download"
    /\ pc = "returned"
    /\ call.streamed /\ ~call.iterator /\ call.action = "h"
    /\ call.chunk_size = 2
    /\ Len(response.body) = 3
    /\ Len(handled) = 2
    /\ result = None

\* C3: with iterator=True the returned object, once fully consumed, has
\* yielded the chunk sequence the streamed callback path hands to its handler
\* for the same body and chunk_size, and the handler is never invoked, even
\* when one is supplied.
C3_IteratorSameChunks ==
    (call.op \in FetchOps /\ call.iterator) =>
        /\ handled = <<>>
        /\ IsPrefix(consumed, ExpectedChunks(response.body, call.chunk_size))
        /\ it = "exhausted" => consumed = ExpectedChunks(response.body, call.chunk_size)

\* A handler was supplied, the iterator was consumed to its end in two chunks.
C3_Witness ==
    /\ call.op = "ProjectJobArtifactManager.raw"
    /\ call.iterator
    /\ call.action = "h"
    /\ it = "exhausted"
    /\ Len(consumed) = 2
    /\ handled = <<>>

\* C4: every fetch operation issues a GET on the wire path of its identifiers:
\* by-ref operations send job={job} besides the extra options, by-job-id
\* operations send the extra options alone (no job parameter), and the extra
\* options do not alter the path.
C4_WireShape ==
    (call.op \in FetchOps /\ pc # "idle") =>
        /\ Len(requests) = 1
        /\ requests[1].method = "GET"
        /\ requests[1].path = WirePath
        /\ requests[1].query = (IF call.op \in ByRefOps THEN {<<"job", call.job>>} ELSE {}) \cup call.kwargs
        /\ (call.op \notin ByRefOps) => (\A kv \in requests[1].query : kv[1] # "job")

\* raw(ref_name="main", artifact_path="report.xml", job="build") with a job token.
C4_Witness ==
    /\ call.op = "ProjectArtifactManager.raw"
    /\ call.ref_name = "main" /\ call.artifact_path = "report.xml" /\ call.job = "build"
    /\ call.kwargs = {<<"job_token", "tok">>}
    /\ Len(requests) = 1
    /\ requests[1].path = "/projects/42/jobs/artifacts/main/raw/report.xml"
    /\ <<"job", "build">> \in requests[1].query

\* C5: when the server answers the GET with 404 the fetch operation raises
\* GitlabGetError and never returns; an operation that raises returns no
\* result in any mode, a streamed one stops at the failing chunk (the handler
\* saw exactly the bytes read before it), and exactly one request was issued.
C5_NotFound ==
    (call.op \in FetchOps /\ pc # "idle") =>
        /\ response.status = 404 =>
              (pc = "raised" /\ error = "GitlabGetError" /\ handled = <<>>)
        /\ response.status \notin 200..299 => pc = "raised"
        /\ pc = "raised" =>
              /\ result = Unset
              /\ it = "none"
              /\ Len(requests) = 1
              /\ error # "none"
        /\ (pc = "raised" /\ response.status \in 200..299) =>
              /\ call.streamed /\ ~call.iterator
              /\ call.action # "None" => Concat(handled) = SubSeq(response.body, 1, pos)

\* A 404 on a by-ref download, in streamed mode with a handler.
C5_Witness ==
    /\ call.op = "ProjectArtifactManager.download"
    /\ response.status = 404
    /\ call.streamed /\ call.action = "h"
    /\ pc = "raised"
    /\ error = "GitlabGetError"

\* C6: an accepted delete() issued exactly one request, a DELETE to
\* /projects/{project_id}/artifacts of the parent project (not the manager's
\* jobs/artifacts root), and returned None.
C6_DeleteOnce ==
    (call.op = "ProjectArtifactManager.delete" /\ response.status \in 200..299) =>
        /\ pc = "returned"
        /\ result = None
        /\ Len(requests) = 1
        /\ requests[1].method = "DELETE"
        /\ requests[1].path = "/projects/" \o ToString(mgr.parent_attrs.project_id) \o "/artifacts"
        /\ requests[1].path # mgr.path

\* delete() on project 42, accepted with 204.
C6_Witness ==
    /\ call.op = "ProjectArtifactManager.delete"
    /\ response.status = 204
    /\ pc = "returned"
    /\ requests = << [method |-> "DELETE", path |-> "/projects/42/artifacts",
                      query |-> {}, streamed |-> FALSE, raw |-> FALSE] >>

\* C7: a delete() the server rejects with 401 or 403 raises
\* GitlabAuthenticationError, and one rejected with any other status raises
\* GitlabDeleteError.
C7_DeleteErrors ==
    (call.op = "ProjectArtifactManager.delete" /\ response.status \notin 200..299) =>
        /\ pc = "raised"
        /\ result = Unset
        /\ response.status \in {401, 403} => error = "GitlabAuthenticationError"
        /\ response.status \notin {401, 403} => error = "GitlabDeleteError"

\* delete() rejected with 403.
C7_Witness ==
    /\ call.op = "ProjectArtifactManager.delete"
    /\ response.status = 403
    /\ pc = "raised"
    /\ error = "GitlabAuthenticationError"

\* C8: once a fetch operation is over (it raised, or it returned and any
\* iterator it returned is exhausted, abandoned or broken) the connection of
\* the response is released.
C8_ConnectionReleased ==
    (call.op \in FetchOps /\ (pc = "raised" \/ (pc = "returned" /\ it # "live"))) =>
        conn = "closed"

\* C9: a step that calls a manager directly is a step of its download with
\* the same arguments (same request, same result or error) that also emits
\* one deprecation notice; download itself emits none.
C9_CallIsDownload ==
    [][ /\ (pc = "idle" /\ call'.op = "ProjectArtifactManager.__call__") =>
              /\ warnings' = warnings + 1
              /\ ProjectArtifactManager_download_body(call'.ref_name, call'.job, call'.streamed,
                     call'.action, call'.chunk_size, call'.iterator, call'.kwargs)
        /\ (pc = "idle" /\ call'.op = "ProjectJobArtifactManager.__call__") =>
              /\ warnings' = warnings + 1
              /\ ProjectJobArtifactManager_download_body(call'.streamed, call'.action,
                     call'.chunk_size, call'.iterator, call'.kwargs)
        /\ (pc = "idle" /\ call'.op \in DownloadOps) => warnings' = warnings
        /\ pc # "idle" => warnings' = warnings
      ]_vars

\* The by-job-id alias returned a buffer after one notice and one request.
C9_Witness ==
    /\ call.op = "ProjectJobArtifactManager.__call__"
    /\ call.kwargs = {<<"job_token", "tok">>}
    /\ warnings = 1
    /\ Len(requests) = 1
    /\ requests[1].query = {<<"job_token", "tok">>}
    /\ pc = "returned"
    /\ result.kind = "bytes"

\* C10: the transfer mode asked of http_get is the caller's streamed flag,
\* whatever iterator is; with iterator alone the transfer is buffered and the
\* iterator runs over the body already read.
C10_TransferMode ==
    (call.op \in FetchOps /\ pc # "idle") =>
        /\ requests[1].streamed = call.streamed
        /\ requests[1].raw
        /\ (it # "none" /\ ~call.streamed) => (response.content_consumed /\ conn = "closed")
        /\ (it = "live" /\ call.streamed) => ~response.content_consumed

\* iterator=True, streamed=False: a buffered transfer, an iterator returned.
C10_Witness ==
    /\ call.op = "ProjectJobArtifactManager.download"
    /\ call.iterator /\ ~call.streamed
    /\ pc = "returned"
    /\ result.kind = "iterator"
    /\ requests[1].streamed = FALSE
    /\ response.content_consumed
====
